---- MODULE Spec2Model ----
(***************************************************************************)
(* State machine of the clicker game in src/Project/main.cpp.              *)
(*                                                                         *)
(* Reals are kept exactly as scaled integers:                              *)
(*   time     in centiseconds          (1.0 s  = 100)                      *)
(*   opacity  in thousandths           (1.0    = 1000)                     *)
(*   colour   in 1/1800                (1.0    = 1800)                     *)
(* so 0.2/s * dt is 2 * dt, and (avg - 0.55) / 0.45 is sum - 2200, with no *)
(* rounding.  One driver-loop iteration runs through the positions of pc   *)
(* in the order of the statements of main().                               *)
(*                                                                         *)
(* The line rasterizer of src/Lab_report_06/src/main.cpp is a second,      *)
(* independent program: its loop is the specification LineSpec.            *)
(***************************************************************************)
EXTENDS Integers, Sequences, FiniteSets, TLC

\* ------------------------------------------------------------------ scales
OPACITY_ONE == 1000
COLOR_ONE == 1800

\* --------------------------------------------------------------- constants
OPACITY_FADE_RATE == 2
OPACITY_GAIN_RATE == 250
OPACITY_THRESHOLD == 550
GAME_DURATION == 1000
BOOM_DURATION == 250
DISAPPEAR_WINDOW == 50
NUM_PILLARS == 4
\* 1.0f of the uniform scale and of the progress ratio, in thousandths
SCALE_ONE == 1000

\* ------------------------------------------------------------------ bounds
\* Frame times offered by the clock: no time, a quarter second, a second,
\* and one long frame (a stall of several seconds).
LongDt == 600
UnitDt == GAME_DURATION \div 10
DtSet == {0, UnitDt \div 4, UnitDt, LongDt}
\* Length of the unit-frame scenario followed by the history counter scen.
ScenarioTicks == 6
\* Cap of the history counter holdBoosts.
MaxHoldBoosts == 2
\* The rasterizer's integer-scaled endpoints range over -LineMax .. LineMax.
LineMax == 3

\* ----------------------------------------------------------------- helpers
Min(a, b) == IF a < b THEN a ELSE b
Max(a, b) == IF a > b THEN a ELSE b

Pillars == 0 .. (NUM_PILLARS - 1)

\* Variant: the loop body that advances the collapse before it recomputes
\* the background colour.
LoopOrderBoomFirst ==
    << "clock", "input", "logic", "boom", "color", "clear", "draw", "poll" >>

\* The statements of the driver loop's body, in their order in main().
LoopOrder == << "clock", "input", "logic", "color", "boom", "clear", "draw", "poll" >>

\* The position that follows position p (the loop returns to its top).
StepAfter(p) ==
    LET k == CHOOSE n \in 1 .. Len(LoopOrder) : LoopOrder[n] = p
    IN  LoopOrder[(k % Len(LoopOrder)) + 1]

\* Variant: the layout with the pillars' offsets ahead of the windows'.
DisappearTimesPillarsFirst ==
    << 35, 40, 35,
       32, 32,
       46, 47, 48, 49,
       50, 52, 54, 56,
       50, 52, 54, 56,
       60, 62, 64, 65, 67, 69,
       80, 81, 82, 83, 84, 85 >>

\* disappearTime of every piece, in registry order (index 0 first).
DisappearTimes ==
    << 35, 40, 35,
       32, 32,
       86, 87, 88, 89,
       50, 52, 54, 56,
       50, 52, 54, 56,
       60, 62, 64, 65, 67, 69,
       80, 81, 82, 83, 84, 85 >>

Components == 0 .. (Len(DisappearTimes) - 1)

\* Registry positions of the groups of the layout.
PillarPieces == 5 .. 8
WindowPieces == 9 .. 22
GatePieces == 23 .. 28
disappearTime(i) == DisappearTimes[i + 1]

VARIABLES
    pc,                    \* position in the driver loop
    deltaTime,             \* this frame's elapsed time
    spaceKey, rKey,        \* key states held by the window system
    spacePressed, rPressed,\* the statics of processInput
    pillarOpacity,
    gameTimer, gameActive, gameWon, gameLost, gameStatus,
    boomStarted, boomTimer,
    componentDisappeared,
    bgRed, bgGreen, bgBlue,
    \* history, not read by the program
    boosted,               \* the boost ran in this iteration
    resetFrom,             \* what resetGame found when it ran in this iteration
    prevSpace,             \* SPACE as the previous processInput read it
    holdBoosts,            \* boosts during the current hold of SPACE
    holdFromActive,        \* the current hold began with the round running
    scen,                  \* ticks of the unit-frame, no-boost scenario; -1 = off
    order,                 \* the steps this iteration has run, in order
    tickOpacity,           \* pillarOpacity as the iteration found it
    \* what the render loop submitted for every piece in its last pass
    drawn,
    \* the colour the frame was last cleared with
    clearColor,
    \* the locals of Bresenham (Lab 06)
    linePc, X0, Y0, X1, Y1, x, y, err, pts

gameVars == << pillarOpacity, gameTimer, gameActive, gameWon, gameLost, gameStatus >>
boomVars == << boomStarted, boomTimer >>
bgVars == << bgRed, bgGreen, bgBlue >>
keyVars == << spaceKey, rKey >>
histVars == << boosted, resetFrom, prevSpace, holdBoosts, holdFromActive, scen >>
lineVars == << linePc, X0, Y0, X1, Y1, x, y, err, pts >>
vars == << pc, deltaTime, spaceKey, rKey, spacePressed, rPressed, pillarOpacity,
           gameTimer, gameActive, gameWon, gameLost, gameStatus, boomStarted,
           boomTimer, componentDisappeared, bgRed, bgGreen, bgBlue, boosted,
           resetFrom, prevSpace, holdBoosts, holdFromActive, scen, order,
           tickOpacity, drawn, clearColor, linePc, X0, Y0, X1, Y1, x, y, err, pts >>

\* The tri-state outcome carried by the three flags.
Outcome ==
    IF gameActive /\ ~gameWon /\ ~gameLost THEN "InProgress"
    ELSE IF ~gameActive /\ gameWon /\ ~gameLost THEN "Won"
    ELSE IF ~gameActive /\ ~gameWon /\ gameLost THEN "Lost"
    ELSE "Invalid"

FullOpacity == [i \in Pillars |-> OPACITY_ONE]
NoneDisappeared == [i \in Components |-> FALSE]

\* What the renderer holds for a piece: how it was submitted, and for a
\* disintegrating piece its progress ratio and uniform scale factor.
Submitted(m, p, sc) == [mode |-> m, progress |-> p, scale |-> sc]
NothingDrawn == [i \in Components |-> Submitted("none", 0, SCALE_ONE)]

\* The clear colour: the steady background, or during the collapse the flash,
\* a function sin(boomTimer * 6.28 * 5) of the collapse clock it was taken from.
SteadyColor(r, g, b) == [flash |-> FALSE, clock |-> 0, rgb |-> << r, g, b >>]
FlashColor(t) == [flash |-> TRUE, clock |-> t, rgb |-> << >>]

\* The game before its first iteration.
GameInit ==
    /\ pc = "clock"
    /\ deltaTime = 0
    /\ spaceKey = FALSE
    /\ rKey = FALSE
    /\ spacePressed = FALSE
    /\ rPressed = FALSE
    /\ pillarOpacity = FullOpacity
    /\ gameTimer = 0
    /\ gameActive = TRUE
    /\ gameWon = FALSE
    /\ gameLost = FALSE
    /\ gameStatus = "Keep Clicking!"
    /\ boomStarted = FALSE
    /\ boomTimer = 0
    /\ componentDisappeared = NoneDisappeared
    /\ bgRed = COLOR_ONE
    /\ bgGreen = COLOR_ONE
    /\ bgBlue = COLOR_ONE
    /\ boosted = FALSE
    /\ resetFrom = "none"
    /\ prevSpace = FALSE
    /\ holdBoosts = 0
    /\ holdFromActive = FALSE
    /\ scen = 0
    /\ order = << >>
    /\ tickOpacity = FullOpacity
    /\ drawn = NothingDrawn
    /\ clearColor = SteadyColor(COLOR_ONE, COLOR_ONE, COLOR_ONE)

\* The rasterizer at rest.
LineIdle ==
    /\ linePc = "idle"
    /\ X0 = 0 /\ Y0 = 0 /\ X1 = 0 /\ Y1 = 0
    /\ x = 0 /\ y = 0 /\ err = 0
    /\ pts = << >>

Init == GameInit /\ LineIdle

\* What a call of resetGame finds: the outcome, or the running collapse
\* (with or without pieces already removed).
Situation ==
    IF boomStarted
    THEN IF \E i \in Components : componentDisappeared[i]
         THEN "CollapseRemoved" ELSE "Collapse"
    ELSE Outcome

\* ------------------------------------------------------------ main: clock
\* float deltaTime = currentTime - lastTime;
ReadClock ==
    /\ pc = "clock"
    /\ pc' = StepAfter("clock")
    /\ \E dt \in DtSet : deltaTime' = dt
    /\ order' = << >>
    /\ UNCHANGED << keyVars, spacePressed, rPressed, gameVars, boomVars,
                    componentDisappeared, bgVars, histVars, tickOpacity, drawn,
                    lineVars,
                    clearColor >>

\* ---------------------------------------------------------------- resetGame
\* Variant: the reset that forgets the pieces' disappeared flags.
ResetKeepsDisappeared ==
    /\ pillarOpacity' = FullOpacity
    /\ gameTimer' = 0
    /\ gameActive' = TRUE
    /\ gameWon' = FALSE
    /\ gameLost' = FALSE
    /\ gameStatus' = "Keep Clicking!"
    /\ boomStarted' = FALSE
    /\ boomTimer' = 0
    /\ bgRed' = COLOR_ONE
    /\ bgGreen' = COLOR_ONE
    /\ bgBlue' = COLOR_ONE
    /\ componentDisappeared' = componentDisappeared

ResetGame ==
    /\ pillarOpacity' = FullOpacity
    /\ gameTimer' = 0
    /\ gameActive' = TRUE
    /\ gameWon' = FALSE
    /\ gameLost' = FALSE
    /\ gameStatus' = "Keep Clicking!"
    /\ boomStarted' = FALSE
    /\ boomTimer' = 0
    /\ bgRed' = COLOR_ONE
    /\ bgGreen' = COLOR_ONE
    /\ bgBlue' = COLOR_ONE
    /\ componentDisappeared' = NoneDisappeared

\* ------------------------------------------------------------ processInput
\* Variant: the boost without its debounce.
BoostEveryFrame == gameActive /\ ~boomStarted

\* Variant: the boost that ignores the state of the round.
BoostInAnyRound == ~spacePressed

\* if (!spacePressed && gameActive && !boomStarted)
BoostTriggers == ~spacePressed /\ gameActive /\ ~boomStarted

\* pillarOpacity[i] = std::min(pillarOpacity[i] + OPACITY_GAIN_RATE, 1.0f)
BoostOpacity(op) == [i \in Pillars |-> Min(op[i] + OPACITY_GAIN_RATE, OPACITY_ONE)]

\* if (!rPressed) resetGame();
ResetTriggers == ~rPressed

ProcessInput ==
    /\ pc = "input"
    /\ pc' = StepAfter("input")
    /\ LET doBoost == spaceKey /\ BoostTriggers
           doReset == rKey /\ ResetTriggers
       IN  /\ spacePressed' = IF spaceKey THEN (spacePressed \/ doBoost) ELSE FALSE
           /\ rPressed' = rKey
           /\ boosted' = doBoost
           /\ resetFrom' = IF doReset THEN Situation ELSE "none"
           /\ prevSpace' = spaceKey
           /\ holdBoosts' = IF spaceKey
                            THEN Min((IF prevSpace THEN holdBoosts ELSE 0)
                                     + (IF doBoost THEN 1 ELSE 0), MaxHoldBoosts)
                            ELSE 0
           /\ holdFromActive' = IF ~spaceKey THEN FALSE
                                ELSE IF ~prevSpace THEN (gameActive /\ ~boomStarted)
                                ELSE holdFromActive
           /\ IF doReset
              THEN /\ ResetGame
                   /\ scen' = 0
              ELSE /\ pillarOpacity' = IF doBoost THEN BoostOpacity(pillarOpacity)
                                       ELSE pillarOpacity
                   /\ scen' = IF doBoost THEN -1 ELSE scen
                   /\ UNCHANGED << gameTimer, gameActive, gameWon, gameLost, gameStatus,
                                   boomVars, bgVars, componentDisappeared >>
    /\ order' = Append(order, "input")
    /\ UNCHANGED << deltaTime, keyVars, tickOpacity, drawn, lineVars,
                    clearColor >>

\* --------------------------------------------------------- updateGameLogic
\* Variant: the decay without its lower clamp.
DecayUnclamped(op, dt) == [i \in Pillars |-> op[i] - OPACITY_FADE_RATE * dt]

\* pillarOpacity[i] -= OPACITY_FADE_RATE * deltaTime; clamped at 0
DecayOpacity(op, dt) == [i \in Pillars |-> Max(op[i] - OPACITY_FADE_RATE * dt, 0)]

\* Variant: a pillar fails only once it has faded out completely.
AnyPillarGone(op) == \E i \in Pillars : op[i] <= 0

\* the scan for a pillar below the threshold
AnyPillarFailed(op) == \E i \in Pillars : op[i] < OPACITY_THRESHOLD

\* Variant: the round must run past its duration.
TimeIsPast(t) == t > GAME_DURATION

\* if (gameTimer >= GAME_DURATION)
TimeIsUp(t) == t >= GAME_DURATION

\* Variant: the early return that looks at the collapse only.
LogicSkippedInCollapse == boomStarted

\* if (!gameActive || boomStarted) return;
LogicSkipped == ~gameActive \/ boomStarted

UpdateGameLogic ==
    /\ pc = "logic"
    /\ pc' = StepAfter("logic")
    /\ scen' = IF scen >= 0 /\ scen < ScenarioTicks /\ deltaTime = UnitDt
               THEN scen + 1 ELSE -1
    /\ IF LogicSkipped
       THEN UNCHANGED << gameVars, boomVars >>
       ELSE LET decayed == DecayOpacity(pillarOpacity, deltaTime)
            IN  /\ pillarOpacity' = decayed
                /\ IF AnyPillarFailed(decayed)
                   THEN /\ gameActive' = FALSE
                        /\ gameLost' = TRUE
                        /\ gameStatus' = "LOST! Pillars collapsed!"
                        /\ boomStarted' = TRUE
                        /\ boomTimer' = 0
                        /\ UNCHANGED << gameTimer, gameWon >>
                   ELSE /\ gameTimer' = gameTimer + deltaTime
                        /\ IF TimeIsUp(gameTimer + deltaTime)
                           THEN /\ gameActive' = FALSE
                                /\ gameWon' = TRUE
                                /\ gameStatus' = "WON! Campus Saved!"
                           ELSE UNCHANGED << gameActive, gameWon, gameStatus >>
                        /\ UNCHANGED << gameLost, boomVars >>
    /\ order' = Append(order, "logic")
    /\ UNCHANGED << deltaTime, keyVars, spacePressed, rPressed, componentDisappeared,
                    bgVars, boosted, resetFrom, prevSpace, holdBoosts, holdFromActive,
                    tickOpacity, drawn, lineVars,
                    clearColor >>

\* --------------------------------------------------- updateBackgroundColor
\* opacityRatio = max((avgOpacity - THRESHOLD) / (1 - THRESHOLD), 0), in 1/1800:
\* avg = sum / 4 thousandths, so the ratio is (sum - 4 * 550) / 1800.
OpacitySum(op) == op[0] + op[1] + op[2] + op[3]
\* Variant: the ratio taken from the sum without averaging.
OpacityRatioOfSum(op) == Max(OpacitySum(op) - OPACITY_THRESHOLD, 0)

OpacityRatio(op) == Max(OpacitySum(op) - NUM_PILLARS * OPACITY_THRESHOLD, 0)

\* 0.2f as a colour
COLOR_DIM == 360

UpdateBackgroundColor ==
    /\ pc = "color"
    /\ pc' = StepAfter("color")
    /\ IF ~gameLost /\ gameActive
       THEN /\ bgRed' = COLOR_ONE
            /\ bgGreen' = OpacityRatio(pillarOpacity)
            /\ bgBlue' = OpacityRatio(pillarOpacity)
       ELSE IF gameLost
       THEN /\ bgRed' = COLOR_ONE
            /\ bgGreen' = COLOR_DIM
            /\ bgBlue' = COLOR_DIM
       ELSE IF gameWon
       THEN /\ bgRed' = COLOR_DIM
            /\ bgGreen' = COLOR_ONE
            /\ bgBlue' = COLOR_DIM
       ELSE UNCHANGED bgVars
    /\ order' = Append(order, "color")
    /\ UNCHANGED << deltaTime, keyVars, spacePressed, rPressed, gameVars, boomVars,
                    componentDisappeared, histVars, tickOpacity, drawn, lineVars,
                    clearColor >>

\* ----------------------------------------------------- updateBoomAnimation
\* Variant: the collapse must run past its duration.
BoomIsPast(t) == t > BOOM_DURATION

\* if (boomTimer >= BOOM_DURATION)
BoomIsOver(t) == t >= BOOM_DURATION

\* main: if (boomStarted) updateBoomAnimation(deltaTime);
UpdateBoomAnimation ==
    /\ pc = "boom"
    /\ pc' = StepAfter("boom")
    /\ IF boomStarted
       THEN IF BoomIsOver(boomTimer + deltaTime)
            THEN /\ boomStarted' = FALSE
                 /\ boomTimer' = 0
            ELSE /\ boomTimer' = boomTimer + deltaTime
                 /\ UNCHANGED boomStarted
       ELSE UNCHANGED boomVars
    /\ order' = Append(order, "boom")
    /\ UNCHANGED << deltaTime, keyVars, spacePressed, rPressed, gameVars,
                    componentDisappeared, bgVars, histVars, tickOpacity, drawn,
                    lineVars,
                    clearColor >>

\* ------------------------------------------------ main: clear the frame
\* glClearColor(bgRed, bgGreen, bgBlue, 1.0f); glClear(...);
\* if (boomStarted) { flashIntensity = sin(boomTimer * 6.28f * 5.0f) ...; glClear(...); }
ClearBackground ==
    /\ pc = "clear"
    /\ pc' = StepAfter("clear")
    /\ clearColor' = IF boomStarted THEN FlashColor(boomTimer)
                     ELSE SteadyColor(bgRed, bgGreen, bgBlue)
    /\ order' = Append(order, "clear")
    /\ UNCHANGED << deltaTime, keyVars, spacePressed, rPressed, gameVars, boomVars,
                    componentDisappeared, bgVars, histVars, tickOpacity, drawn,
                    lineVars >>

\* ------------------------------------------------- main: per-piece render
\* float timeSinceDisappear = boomTimer - comp->disappearTime;
TimeSinceDisappear(i) == boomTimer - disappearTime(i)

\* timeSinceDisappear > 0.0f && boomStarted
Disappearing(i) == TimeSinceDisappear(i) > 0 /\ boomStarted

\* Variant: a piece is dropped as soon as its own animation starts.
ProgressStarted(i) == TimeSinceDisappear(i) >= 0

\* disappearProgress = min(timeSinceDisappear / 0.5f, 1.0f) >= 1.0f
ProgressDone(i) == TimeSinceDisappear(i) >= DISAPPEAR_WINDOW

\* disappearProgress = std::min(timeSinceDisappear / 0.5f, 1.0f), in thousandths
DisappearProgress(i) ==
    Min((TimeSinceDisappear(i) * SCALE_ONE) \div DISAPPEAR_WINDOW, SCALE_ONE)

\* Variant: the piece shrinks by half instead of by four fifths.
ScaleAmountHalf(p) == SCALE_ONE - (p * 5) \div 10

\* scaleAmount = 1.0f - (disappearProgress * 0.8f)
ScaleAmount(p) == SCALE_ONE - (p * 8) \div 10

\* Variant: the resting branch that does not look at the disappeared flag.
RenderModeIgnoringFlag(i) ==
    IF Disappearing(i)
    THEN IF ProgressDone(i) THEN "skip" ELSE "anim"
    ELSE "rest"

\* The branch the loop body takes for piece i: the disintegration transform,
\* the resting transform, or `continue` (nothing submitted).
RenderMode(i) ==
    IF Disappearing(i)
    THEN IF ProgressDone(i) THEN "skip" ELSE "anim"
    ELSE IF ~componentDisappeared[i] THEN "rest"
    ELSE "skip"

\* What the loop body submits for piece i.
RenderPiece(i) ==
    IF RenderMode(i) = "anim"
    THEN Submitted("anim", DisappearProgress(i), ScaleAmount(DisappearProgress(i)))
    ELSE Submitted(RenderMode(i), 0, SCALE_ONE)

DrawComponents ==
    /\ pc = "draw"
    /\ pc' = StepAfter("draw")
    /\ componentDisappeared' =
           [i \in Components |->
               IF Disappearing(i) /\ ProgressDone(i) THEN TRUE
               ELSE componentDisappeared[i]]
    /\ drawn' = [i \in Components |-> RenderPiece(i)]
    /\ order' = Append(order, "draw")
    /\ UNCHANGED << deltaTime, keyVars, spacePressed, rPressed, gameVars, boomVars,
                    bgVars, histVars, tickOpacity, lineVars,
                    clearColor >>

\* ------------------------------------------------------ main: end of frame
\* glfwPollEvents(): the window system delivers key presses and releases.
\* deltaTime is local to the loop body and dies here.
PollEvents ==
    /\ pc = "poll"
    /\ pc' = StepAfter("poll")
    /\ spaceKey' \in BOOLEAN
    /\ rKey' \in BOOLEAN
    /\ deltaTime' = 0
    /\ boosted' = FALSE
    /\ resetFrom' = "none"
    /\ tickOpacity' = pillarOpacity
    /\ UNCHANGED << spacePressed, rPressed, gameVars, boomVars, componentDisappeared,
                    bgVars, prevSpace, holdBoosts, holdFromActive, scen, order, drawn,
                    lineVars,
                    clearColor >>

Next ==
    \/ ReadClock
    \/ ProcessInput
    \/ UpdateGameLogic
    \/ UpdateBackgroundColor
    \/ UpdateBoomAnimation
    \/ ClearBackground
    \/ DrawComponents
    \/ PollEvents

Spec == Init /\ [][Next]_vars

\* ================================================ Lab 06: Bresenham's line
\* Everything but the rasterizer's locals.
progVars == << pc, deltaTime, spaceKey, rKey, spacePressed, rPressed, pillarOpacity,
               gameTimer, gameActive, gameWon, gameLost, gameStatus, boomStarted,
               boomTimer, componentDisappeared, bgRed, bgGreen, bgBlue, boosted,
               resetFrom, prevSpace, holdBoosts, holdFromActive, scen, order,
               tickOpacity, drawn, clearColor >>

Abs(n) == IF n < 0 THEN -n ELSE n

\* The integer-scaled endpoints int(round(x0 * scale)), ... of a call.
Coord == (-LineMax) .. LineMax

\* int dx = abs(X1 - X0); int dy = abs(Y1 - Y0);
dx == Abs(X1 - X0)
dy == Abs(Y1 - Y0)

\* Step direction for the X and the Y axis
sx == IF X0 < X1 THEN 1 ELSE -1
sy == IF Y0 < Y1 THEN 1 ELSE -1

\* int e2 = 2 * err;
ErrorTwice(e) == 2 * e

\* Variant: the x test against dy without its sign.
StepsXUnsigned(e2) == e2 > dy

\* if (e2 > -dy)
StepsX(e2) == e2 > -dy

\* if (e2 < dx)
StepsY(e2) == e2 < dx

\* A call of Bresenham with any endpoints, at the top of its loop.
LineInit ==
    /\ GameInit
    /\ X0 \in Coord /\ Y0 \in Coord /\ X1 \in Coord /\ Y1 \in Coord
    /\ x = X0
    /\ y = Y0
    /\ err = Abs(X1 - X0) - Abs(Y1 - Y0)
    /\ pts = << >>
    /\ linePc = "loop"

\* One iteration of while (true): emit the point, leave at the end point,
\* otherwise step along x and/or y.
BresenhamStep ==
    /\ linePc = "loop"
    /\ pts' = Append(pts, << x, y >>)
    /\ IF x = X1 /\ y = Y1
       THEN /\ linePc' = "done"
            /\ UNCHANGED << x, y, err >>
       ELSE LET e2 == ErrorTwice(err)
                stepX == StepsX(e2)
                stepY == StepsY(e2)
            IN  /\ x' = IF stepX THEN x + sx ELSE x
                /\ y' = IF stepY THEN y + sy ELSE y
                /\ err' = err - (IF stepX THEN dy ELSE 0) + (IF stepY THEN dx ELSE 0)
                /\ UNCHANGED linePc
    /\ UNCHANGED << X0, Y0, X1, Y1 >>
    /\ UNCHANGED progVars

LineNext == BresenhamStep

LineSpec == LineInit /\ [][LineNext]_vars

TypeOK ==
    /\ pc \in {"clock", "input", "logic", "color", "boom", "clear", "draw", "poll"}
    /\ Outcome # "Invalid"

\* ================================================================== claims
InProgress == Outcome = "InProgress"
Won == Outcome = "Won"
Lost == Outcome = "Lost"

\* The step of updateGameLogic taken while the round is running.
LogicStepInProgress == pc = "logic" /\ InProgress /\ ~boomStarted

\* C1: on the tick whose decay leaves a pillar below 0.55 the outcome becomes
\* Lost on that very tick, Won is not set and the tick's dt is not added to
\* the elapsed time, also when elapsed + dt would reach the round duration;
\* with no pillar below 0.55 the tick does not lose.  Decay is 0.2 per second,
\* floored at 0.  From a fresh round, unit frames without boost lose at tick 3.
C1_LoseOnFirstTickBelowThreshold ==
    [][ /\ LogicStepInProgress =>
            /\ \A i \in Pillars :
                  pillarOpacity'[i] =
                      IF pillarOpacity[i] * 100 >= 200 * deltaTime
                      THEN (pillarOpacity[i] * 100 - 200 * deltaTime) \div 100
                      ELSE 0
            /\ (\E i \in Pillars : pillarOpacity'[i] < 550) =>
                  /\ Lost'
                  /\ ~gameWon'
                  /\ gameTimer' = gameTimer
                  /\ boomStarted'
            /\ (\A i \in Pillars : pillarOpacity'[i] >= 550) => ~Lost'
        /\ (scen' \in {1, 2}) => InProgress'
        /\ (scen' >= 3) => Lost'
      ]_vars

\* C1 witness: the round was just lost on a tick whose dt would also have
\* brought the elapsed time to the round duration.
C1_Witness ==
    /\ pc = "color"
    /\ Lost
    /\ boomStarted
    /\ resetFrom = "none"
    /\ gameTimer > 0
    /\ gameTimer < 1000
    /\ gameTimer + deltaTime >= 1000

\* C2: on a running tick whose decay leaves every pillar at 0.55 or more, the
\* tick's dt is added to the elapsed time and the outcome becomes Won exactly
\* if the elapsed time is then at least 10 s (equality included); otherwise
\* the round stays InProgress.  A running round has elapsed time below 10 s.
C2_WinOnFirstTickAtDuration ==
    [][ /\ (LogicStepInProgress /\ \A i \in Pillars : pillarOpacity'[i] >= 550) =>
            /\ gameTimer' = gameTimer + deltaTime
            /\ (gameTimer' >= 1000) => Won'
            /\ (gameTimer' < 1000) => InProgress'
        /\ InProgress' => gameTimer' < 1000
        /\ Won' => gameTimer' >= 1000
      ]_vars

\* C2 witness: the round was just won with the elapsed time exactly 10 s.
C2_Witness ==
    /\ pc = "color"
    /\ Won
    /\ gameTimer = 1000
    /\ deltaTime > 0

\* C3: every pillar opacity lies in [0, 1] in every reachable state.
C3_OpacityInRange ==
    \A i \in Pillars : pillarOpacity[i] >= 0 /\ pillarOpacity[i] <= 1000

\* C3 witness: a decay larger than the opacity was floored at 0.
C3_Witness ==
    /\ pc = "color"
    /\ \A i \in Pillars : pillarOpacity[i] = 0
    /\ 2 * deltaTime > 1000

\* C4: during one continuous hold of the boost key the boost is applied at
\* most once, and exactly once (on the first tick of the hold) when the hold
\* began with the round running; a tick that boosts adds 0.25 to each pillar,
\* capped at 1, and a tick that neither boosts nor resets leaves them alone.
C4_BoostOncePerHold ==
    [][ pc = "input" =>
          /\ holdBoosts' <= 1
          /\ holdFromActive' => holdBoosts' = 1
          /\ (boosted' /\ resetFrom' = "none") =>
                \A i \in Pillars :
                  pillarOpacity'[i] = IF pillarOpacity[i] + 250 > 1000 THEN 1000
                                      ELSE pillarOpacity[i] + 250
          /\ (~boosted' /\ resetFrom' = "none") => pillarOpacity' = pillarOpacity
      ]_vars

\* C4 witness: a later tick of a hold that began with the round running and
\* already boosted once: the key is still down, the round still runs with
\* opacity below 1, and this tick did not boost.
C4_Witness ==
    /\ pc = "logic"
    /\ prevSpace
    /\ holdFromActive
    /\ holdBoosts = 1
    /\ ~boosted
    /\ resetFrom = "none"
    /\ InProgress
    /\ \A i \in Pillars : pillarOpacity[i] < 1000

\* The state after construction, as far as the game is concerned.
FreshGame ==
    /\ \A i \in Pillars : pillarOpacity[i] = 1000
    /\ gameTimer = 0
    /\ InProgress
    /\ gameStatus = "Keep Clicking!"
    /\ ~boomStarted
    /\ boomTimer = 0
    /\ \A i \in Components : ~componentDisappeared[i]
    /\ bgRed = 1800 /\ bgGreen = 1800 /\ bgBlue = 1800

\* C5: whatever state resetGame is called in, it leaves the game in the state
\* after construction: opacities 1, elapsed time 0, InProgress, collapse
\* inactive with clock 0, no piece removed, default status (and so a second
\* call changes nothing).
C5_ResetRestoresFreshGame ==
    [][ (pc = "input" /\ resetFrom' # "none") => FreshGame' ]_vars

\* C5 witness: a reset has just run during an active collapse in which some
\* pieces were already removed.
C5_Witness ==
    /\ pc = "logic"
    /\ resetFrom = "CollapseRemoved"
    /\ FreshGame

\* C6: once the outcome is Won or Lost, a step either keeps it or is the
\* explicit reset that returns to InProgress; the flags always carry exactly
\* one of the three outcomes.
C6_TerminalUntilReset ==
    [][ /\ Outcome' \in {"InProgress", "Won", "Lost"}
        /\ (Won \/ Lost) =>
              \/ Outcome' = Outcome
              \/ InProgress' /\ pc = "input" /\ resetFrom' # "none"
      ]_vars

\* C6 witness: a collapse has run to its end and the outcome is still Lost.
C6_Witness ==
    /\ pc = "draw"
    /\ Lost
    /\ ~boomStarted
    /\ \E i \in Components : componentDisappeared[i]

\* C7: a step taken with outcome Won or Lost that is not a reset leaves the
\* elapsed time and the four opacities unchanged.
C7_FrozenOutsideInProgress ==
    [][ ((Won \/ Lost) /\ resetFrom' = "none") =>
          /\ gameTimer' = gameTimer
          /\ pillarOpacity' = pillarOpacity
      ]_vars

\* C7 witness: a tick with dt > 0 went through input and logic with the boost
\* key newly pressed while the round was already won.
C7_Witness ==
    /\ pc = "color"
    /\ Won
    /\ spaceKey
    /\ ~spacePressed
    /\ deltaTime > 0
    /\ resetFrom = "none"
    /\ \E i \in Pillars : pillarOpacity[i] < 1000

\* C8: the collapse is active only when the outcome is Lost, its clock is in
\* [0, 2.5 s) and is 0 whenever the collapse is inactive; an active collapse
\* advances by dt per tick and deactivates, with clock 0, on the first tick
\* where clock + dt reaches 2.5 s; no other step moves the clock except to 0.
C8_CollapseClock ==
    [][ /\ boomStarted' => Lost'
        /\ boomTimer' >= 0 /\ boomTimer' < 250
        /\ ~boomStarted' => boomTimer' = 0
        /\ (pc = "boom" /\ boomStarted) =>
              IF boomTimer + deltaTime >= 250
              THEN ~boomStarted' /\ boomTimer' = 0
              ELSE boomStarted' /\ boomTimer' = boomTimer + deltaTime
        /\ pc # "boom" => (boomTimer' = boomTimer \/ boomTimer' = 0)
      ]_vars

\* C8 witness: the collapse clock reached exactly 2.5 s on this tick and the
\* collapse has deactivated.
C8_Witness ==
    /\ pc = "draw"
    /\ Lost
    /\ ~boomStarted
    /\ boomTimer = 0
    /\ deltaTime = 25
    /\ \A i \in Components : componentDisappeared[i]

\* C9: a removed flag goes from false to true only in the render step of a
\* tick where the collapse is active and the piece's progress
\* (clock - offset) / 0.5 s has reached 1, and from true to false only by reset.
C9_RemovedFlagDiscipline ==
    [][ \A i \in Components :
          /\ (~componentDisappeared[i] /\ componentDisappeared'[i]) =>
                /\ pc = "draw"
                /\ boomStarted
                /\ boomTimer - DisappearTimes[i + 1] >= 50
          /\ (componentDisappeared[i] /\ ~componentDisappeared'[i]) =>
                /\ pc = "input"
                /\ resetFrom' # "none"
      ]_vars

\* C9 witness: in the middle of a collapse some pieces are removed and others,
\* whose animation has begun, are not yet.
C9_Witness ==
    /\ pc = "poll"
    /\ boomStarted
    /\ \E i \in Components : componentDisappeared[i]
    /\ \E j \in Components :
          /\ ~componentDisappeared[j]
          /\ boomTimer > DisappearTimes[j + 1]

\* The colour the mapper is to give, from the outcome and the opacity sum:
\* r = clamp((avg - 0.55) / 0.45, 0, 1) is clamp(sum - 2200, 0, 1800) / 1800.
ExpectedRatio ==
    LET d == (pillarOpacity[0] + pillarOpacity[1] + pillarOpacity[2]
              + pillarOpacity[3]) - 2200
    IN  IF d < 0 THEN 0 ELSE IF d > 1800 THEN 1800 ELSE d

\* C10: from the colour recompute to the next input, the background is
\* (1, r, r) while InProgress, (0.2, 1, 0.2) when Won, (1, 0.2, 0.2) when Lost.
C10_BackgroundColor ==
    pc \in {"boom", "draw", "poll", "clock", "input"} =>
        /\ InProgress => << bgRed, bgGreen, bgBlue >> = << 1800, ExpectedRatio, ExpectedRatio >>
        /\ Won => << bgRed, bgGreen, bgBlue >> = << 360, 1800, 360 >>
        /\ Lost => << bgRed, bgGreen, bgBlue >> = << 1800, 360, 360 >>

\* C10 witness: the round runs with the average opacity exactly at the
\* threshold and the background is pure red.
C10_Witness ==
    /\ pc = "boom"
    /\ InProgress
    /\ \A i \in Pillars : pillarOpacity[i] = 550
    /\ << bgRed, bgGreen, bgBlue >> = << 1800, 0, 0 >>

\* The positions at which the last render pass still describes the state.
AfterDraw == pc \in {"poll", "clock", "input"}

\* C11: a piece rendered while the collapse is active with the clock inside
\* its window (offset < clock < offset + 0.5 s) is submitted with progress
\* (clock - offset) / 0.5 s, never above 1, and uniform scale
\* 1 - 0.8 * progress, which stays between 0.2 and 1; at clock = offset + 0.25 s
\* the progress is 0.5 and the scale 0.6.
C11_CollapseProgress ==
    AfterDraw =>
      \A i \in Components :
        /\ drawn[i].mode = "anim" =>
              /\ boomStarted
              /\ drawn[i].progress >= 0 /\ drawn[i].progress <= 1000
        /\ (boomStarted /\ boomTimer > DisappearTimes[i + 1]
                        /\ boomTimer < DisappearTimes[i + 1] + 50) =>
              /\ drawn[i].mode = "anim"
              /\ drawn[i].progress * 50 = (boomTimer - DisappearTimes[i + 1]) * 1000
              /\ drawn[i].scale * 10 = 10000 - 8 * drawn[i].progress
              /\ drawn[i].scale > 200 /\ drawn[i].scale < 1000
              /\ boomTimer = DisappearTimes[i + 1] + 25 =>
                    drawn[i].progress = 500 /\ drawn[i].scale = 600

\* C11 witness: a piece was rendered a quarter second after its offset, at
\* progress 0.5 and scale 0.6.
C11_Witness ==
    /\ pc = "poll"
    /\ boomStarted
    /\ \E i \in Components :
          /\ boomTimer = DisappearTimes[i + 1] + 25
          /\ drawn[i] = [mode |-> "anim", progress |-> 500, scale |-> 600]

\* C12: a tick applies the boost only if the boost key is pressed on that tick
\* and was not pressed on the preceding tick (rising edge only), so a press
\* begun while the round was not running and held through a reset never boosts.
C12_BoostOnRisingEdgeOnly ==
    [][ (pc = "input" /\ boosted') => (spaceKey /\ ~prevSpace) ]_vars

\* C13: once a render pass has run, a piece whose removed flag is true was
\* not submitted in the last pass, and the next pass does not submit it
\* either (during the rest of the collapse and after it, until a reset clears
\* the flag); a piece that is not removed and for which the collapse is not
\* active or clock - offset <= 0 was submitted at its resting transform.
C13_PieceVisibility ==
    [][ /\ (AfterDraw /\ drawn # NothingDrawn)' =>
              \A i \in Components :
                /\ componentDisappeared'[i] => drawn'[i].mode = "skip"
                /\ (/\ ~componentDisappeared'[i]
                    /\ (~boomStarted' \/ boomTimer' - DisappearTimes[i + 1] <= 0)) =>
                      drawn'[i] = [mode |-> "rest", progress |-> 0, scale |-> 1000]
        /\ pc = "draw" =>
              \A i \in Components :
                componentDisappeared[i] => drawn'[i].mode = "skip"
      ]_vars

\* C13 witness: a render pass after the end of a collapse skipped the removed
\* pieces.
C13_Witness ==
    /\ pc = "poll"
    /\ Lost
    /\ ~boomStarted
    /\ deltaTime > 0
    /\ \A i \in Components : componentDisappeared[i] /\ drawn[i].mode = "skip"

\* A piece whose disintegration had begun at the last render pass.
Started(i) == drawn[i].mode \in {"anim", "skip"}

\* C14 as claimed: every pillar offset is smaller than every window offset and
\* every window offset smaller than every gate offset, so that in a collapse
\* no window starts before all pillars and no gate piece before all windows.
C14_PillarsWindowsGate ==
    /\ \A p \in PillarPieces, w \in WindowPieces :
          DisappearTimes[p + 1] < DisappearTimes[w + 1]
    /\ \A w \in WindowPieces, g \in GatePieces :
          DisappearTimes[w + 1] < DisappearTimes[g + 1]
    /\ (AfterDraw /\ boomStarted) =>
          /\ (\E w \in WindowPieces : Started(w)) => \A p \in PillarPieces : Started(p)
          /\ (\E g \in GatePieces : Started(g)) => \A w \in WindowPieces : Started(w)

\* C14 amended: every window offset is smaller than every gate offset and
\* every gate offset smaller than every pillar offset (windows, then gate,
\* then pillars), so that in a collapse no gate piece starts before all
\* windows and no pillar before all gate pieces.
C14_WindowsGatePillars ==
    /\ \A w \in WindowPieces, g \in GatePieces :
          DisappearTimes[w + 1] < DisappearTimes[g + 1]
    /\ \A g \in GatePieces, p \in PillarPieces :
          DisappearTimes[g + 1] < DisappearTimes[p + 1]
    /\ (AfterDraw /\ boomStarted) =>
          /\ (\E g \in GatePieces : Started(g)) => \A w \in WindowPieces : Started(w)
          /\ (\E p \in PillarPieces : Started(p)) => \A g \in GatePieces : Started(g)

\* C14 witness: in a collapse every window has started disintegrating while
\* the gate and the pillars still rest.
C14_Witness ==
    /\ pc = "poll"
    /\ boomStarted
    /\ \A w \in WindowPieces : Started(w)
    /\ \A i \in GatePieces \cup PillarPieces : drawn[i].mode = "rest"

\* What a tick that boosts (and does not reset) must leave in the pillars if
\* the boost is applied before the decay: min(o + 0.25, 1) - 0.2 * dt, not below 0.
BoostThenDecay(i) ==
    LET b == IF tickOpacity[i] + 250 > 1000 THEN 1000 ELSE tickOpacity[i] + 250
    IN  IF b - 2 * deltaTime < 0 THEN 0 ELSE b - 2 * deltaTime

\* On a tick that boosted, the decay and the lose check saw the boosted pillars.
BoostBeforeDecayAndLoseCheck ==
    (pc = "color" /\ boosted /\ resetFrom = "none") =>
        /\ \A i \in Pillars : pillarOpacity[i] = BoostThenDecay(i)
        /\ Lost <=> \E i \in Pillars : BoostThenDecay(i) < 550

C16_CompleteCollapse ==
    (Lost /\ ~boomStarted) =>
        /\ \A i \in Components : componentDisappeared[i]
        /\ (pc = "poll") => \A i \in Components : drawn[i].mode # "rest"

\* max(|X1 - X0|, |Y1 - Y0|), written from the endpoints
LongerSide ==
    LET a == IF X1 >= X0 THEN X1 - X0 ELSE X0 - X1
        b == IF Y1 >= Y0 THEN Y1 - Y0 ELSE Y0 - Y1
    IN  IF a >= b THEN a ELSE b

\* C17: for all endpoints the loop is left after exactly
\* max(|X1-X0|, |Y1-Y0|) + 1 iterations (it never starts a further one), the
\* points emitted are that many, the first is (X0,Y0) and the last (X1,Y1),
\* and consecutive points differ by at most 1 in x and at most 1 in y.
C17_BresenhamLine ==
    /\ linePc = "loop" => Len(pts) <= LongerSide
    /\ linePc = "done" =>
          /\ Len(pts) = LongerSide + 1
          /\ pts[Len(pts)] = << X1, Y1 >>
    /\ Len(pts) > 0 => pts[1] = << X0, Y0 >>
    /\ \A k \in 1 .. (Len(pts) - 1) :
          /\ pts[k + 1][1] - pts[k][1] \in {-1, 0, 1}
          /\ pts[k + 1][2] - pts[k][2] \in {-1, 0, 1}

\* C17 witness: a steep line drawn towards the lower left has been finished.
C17_Witness ==
    /\ linePc = "done"
    /\ X0 = 1 /\ Y0 = 3 /\ X1 = -1 /\ Y1 = -3
    /\ Len(pts) = 7

====
